---- MODULE Spec2Model ----
\* darkstat packet decoding (decode.c): link-layer decoders, the IPv4/IPv6
\* demuxer and the TCP/UDP demuxer, driven by the capture loop one frame at a
\* time.  A frame is the sequence of captured bytes; every header field is read
\* from those bytes at the offset the C struct cast reads it.
EXTENDS Integers, Sequences, FiniteSets, TLC

\* ---------------------------------------------------------------------------
\* Bounds of the input space
\* ---------------------------------------------------------------------------
\* number of bytes following an IPv6 + TCP header in the longest frame
MaxData == 2
\* largest number of 32-bit option words in a generated IPv4 header
MaxOptWords == 1

\* ---------------------------------------------------------------------------
\* Header lengths
\* ---------------------------------------------------------------------------
ETHER_HDR_LEN == 14
NULL_HDR_LEN == 4
PPP_HDR_LEN == 4
PPPOE_HDR_LEN == 8
SLL_HDR_LEN == 16
RAW_HDR_LEN == 0
FDDI_HDR_LEN == 21
IP_HDR_LEN == 20
IPV6_HDR_LEN == 40
TCP_HDR_LEN == 20
UDP_HDR_LEN == 8

\* ---------------------------------------------------------------------------
\* Protocol numbers used by the dispatch code
\* ---------------------------------------------------------------------------
ETHERTYPE_IP == 2048
ETHERTYPE_IPV6 == 34525
ETHERTYPE_ARP == 2054
ETHERTYPE_PPPOE == 34916
AF_INET == 2
AF_INET6 == 10
IPPROTO_ICMP == 1
IPPROTO_TCP == 6
IPPROTO_UDP == 17
IPPROTO_ESP == 50
IPPROTO_AH == 51
IPPROTO_ICMPV6 == 58
IPPROTO_OSPF == 89
IPPROTO_INVALID == 254
TH_FIN == 1
TH_SYN == 2
TH_RST == 4
TH_PUSH == 8
TH_ACK == 16
TH_URG == 32

max(a, b) == IF a > b THEN a ELSE b

\* ---------------------------------------------------------------------------
\* Link-type header information
\* ---------------------------------------------------------------------------
NoHandler == "NULL"

linkhdrs ==
  << [linktype |-> "DLT_EN10MB",    hdrlen |-> ETHER_HDR_LEN, handler |-> "decode_ether"],
     [linktype |-> "DLT_LOOP",      hdrlen |-> NULL_HDR_LEN,  handler |-> "decode_loop"],
     [linktype |-> "DLT_NULL",      hdrlen |-> NULL_HDR_LEN,  handler |-> "decode_loop"],
     [linktype |-> "DLT_PPP",       hdrlen |-> PPP_HDR_LEN,   handler |-> "decode_ppp"],
     [linktype |-> "DLT_FDDI",      hdrlen |-> FDDI_HDR_LEN,  handler |-> NoHandler],
     [linktype |-> "DLT_PPP_ETHER", hdrlen |-> PPPOE_HDR_LEN, handler |-> "decode_pppoe"],
     [linktype |-> "DLT_LINUX_SLL", hdrlen |-> SLL_HDR_LEN,   handler |-> "decode_linux_sll"],
     [linktype |-> "DLT_RAW",       hdrlen |-> RAW_HDR_LEN,   handler |-> "decode_raw"],
     [linktype |-> "-1",            hdrlen |-> 0,             handler |-> NoHandler] >>

LinkTypes == { linkhdrs[i].linktype : i \in 1..(Len(linkhdrs) - 1) }

RECURSIVE scanlinkhdr(_, _)
scanlinkhdr(i, linktype) ==
  IF linkhdrs[i].linktype = "-1" THEN 0
  ELSE IF linkhdrs[i].linktype = linktype THEN i
  ELSE scanlinkhdr(i + 1, linktype)

\* index into linkhdrs of the first matching record, 0 for NULL
getlinkhdr(linktype) == scanlinkhdr(1, linktype)

getsnaplen(lh) ==
  linkhdrs[lh].hdrlen + IPV6_HDR_LEN + max(TCP_HDR_LEN, UDP_HDR_LEN)

\* ---------------------------------------------------------------------------
\* Bytes, byte order, bit operations
\* ---------------------------------------------------------------------------
Zeros(n) == [i \in 1..n |-> 0]

\* pdata[off]: a captured byte, or whatever the buffer holds past the capture
ByteAt(pdata, off, junk) ==
  IF off < Len(pdata) THEN pdata[off + 1] ELSE junk

\* memcpy(dst, pdata + off, n)
BytesAt(pdata, off, n, junk) == [i \in 1..n |-> ByteAt(pdata, off + i - 1, junk)]

\* a uint16_t field loaded from memory in host byte order
load16(pdata, off, junk, bigendian) ==
  IF bigendian
  THEN ByteAt(pdata, off, junk) * 256 + ByteAt(pdata, off + 1, junk)
  ELSE ByteAt(pdata, off + 1, junk) * 256 + ByteAt(pdata, off, junk)

\* a uint32_t loaded from memory in host byte order
load32(pdata, off, junk, bigendian) ==
  IF bigendian
  THEN ((ByteAt(pdata, off, junk) * 256 + ByteAt(pdata, off + 1, junk)) * 256
          + ByteAt(pdata, off + 2, junk)) * 256 + ByteAt(pdata, off + 3, junk)
  ELSE ((ByteAt(pdata, off + 3, junk) * 256 + ByteAt(pdata, off + 2, junk)) * 256
          + ByteAt(pdata, off + 1, junk)) * 256 + ByteAt(pdata, off, junk)

ntohs(x, bigendian) ==
  IF bigendian THEN x ELSE (x % 256) * 256 + (x \div 256)

RECURSIVE BitAnd(_, _)
BitAnd(a, b) ==
  IF a = 0 \/ b = 0 THEN 0
  ELSE 2 * BitAnd(a \div 2, b \div 2) + (IF a % 2 = 1 /\ b % 2 = 1 THEN 1 ELSE 0)

RECURSIVE BitOr(_, _)
BitOr(a, b) ==
  IF a = 0 THEN b
  ELSE IF b = 0 THEN a
  ELSE 2 * BitOr(a \div 2, b \div 2) + (IF a % 2 = 1 \/ b % 2 = 1 THEN 1 ELSE 0)

\* struct ip: ip_v is the high nibble of the first byte
ip_v(pdata, p, junk) == ByteAt(pdata, p, junk) \div 16

\* ---------------------------------------------------------------------------
\* struct pktsummary, and the effects of one decoder invocation
\* ---------------------------------------------------------------------------
\* memset(&sm, 0, sizeof(sm))
ZeroSm ==
  [ time      |-> 0,
    src_mac   |-> Zeros(6),
    dst_mac   |-> Zeros(6),
    len       |-> 0,
    proto     |-> 0,
    src       |-> [family |-> "unset", ip |-> Zeros(16)],
    dst       |-> [family |-> "unset", ip |-> Zeros(16)],
    src_port  |-> 0,
    dst_port  |-> 0,
    tcp_flags |-> 0 ]

\* an addr46 union after its 4-byte member is assigned
SetV4(addr, bytes) ==
  [addr EXCEPT !.family = "IPv4",
               !.ip = [i \in 1..16 |-> IF i <= 4 THEN bytes[i] ELSE addr.ip[i]]]

SetV6(addr, bytes) == [addr EXCEPT !.family = "IPv6", !.ip = bytes]

\* sm: the summary on the decoder's stack; log: the verbosef() messages;
\* acct: the summaries handed to acct_for(); reads: frame offsets dereferenced
Entry == [sm |-> ZeroSm, log |-> << >>, acct |-> << >>, reads |-> {}]

verbosef(r, msg) == [r EXCEPT !.log = Append(@, msg)]

acct_for(r) == [r EXCEPT !.acct = Append(@, r.sm)]

Touch(r, p, n) == [r EXCEPT !.reads = @ \cup { p + i : i \in 0..(n - 1) }]

\* ---------------------------------------------------------------------------
\* Transport layer
\* ---------------------------------------------------------------------------
\* variant: a truncated transport header is logged but the protocol is kept
decode_ip_payload_KeepProto(pdata, p, len, r, junk, bigendian) ==
  IF r.sm.proto = IPPROTO_TCP THEN
    IF len < TCP_HDR_LEN
    THEN verbosef(r, "tcp: packet too short")
    ELSE [Touch(Touch(r, p, 4), p + 13, 1) EXCEPT
            !.sm.src_port = ntohs(load16(pdata, p, junk, bigendian), bigendian),
            !.sm.dst_port = ntohs(load16(pdata, p + 2, junk, bigendian), bigendian),
            !.sm.tcp_flags =
               BitAnd(ByteAt(pdata, p + 13, junk),
                      BitOr(TH_FIN, BitOr(TH_SYN, BitOr(TH_RST,
                        BitOr(TH_PUSH, BitOr(TH_ACK, TH_URG))))))]
  ELSE IF r.sm.proto = IPPROTO_UDP THEN
    IF len < UDP_HDR_LEN
    THEN verbosef(r, "udp: packet too short")
    ELSE [Touch(r, p, 4) EXCEPT
            !.sm.src_port = ntohs(load16(pdata, p, junk, bigendian), bigendian),
            !.sm.dst_port = ntohs(load16(pdata, p + 2, junk, bigendian), bigendian)]
  ELSE IF r.sm.proto \in {IPPROTO_ICMP, IPPROTO_ICMPV6, IPPROTO_AH,
                          IPPROTO_ESP, IPPROTO_OSPF}
  THEN r
  ELSE verbosef(r, "ip: unknown protocol")

decode_ip_payload(pdata, p, len, r, junk, bigendian) ==
  IF r.sm.proto = IPPROTO_TCP THEN
    IF len < TCP_HDR_LEN
    THEN [verbosef(r, "tcp: packet too short") EXCEPT !.sm.proto = IPPROTO_INVALID]
    ELSE [Touch(Touch(r, p, 4), p + 13, 1) EXCEPT
            !.sm.src_port = ntohs(load16(pdata, p, junk, bigendian), bigendian),
            !.sm.dst_port = ntohs(load16(pdata, p + 2, junk, bigendian), bigendian),
            !.sm.tcp_flags =
               BitAnd(ByteAt(pdata, p + 13, junk),
                      BitOr(TH_FIN, BitOr(TH_SYN, BitOr(TH_RST,
                        BitOr(TH_PUSH, BitOr(TH_ACK, TH_URG))))))]
  ELSE IF r.sm.proto = IPPROTO_UDP THEN
    IF len < UDP_HDR_LEN
    THEN [verbosef(r, "udp: packet too short") EXCEPT !.sm.proto = IPPROTO_INVALID]
    ELSE [Touch(r, p, 4) EXCEPT
            !.sm.src_port = ntohs(load16(pdata, p, junk, bigendian), bigendian),
            !.sm.dst_port = ntohs(load16(pdata, p + 2, junk, bigendian), bigendian)]
  ELSE IF r.sm.proto \in {IPPROTO_ICMP, IPPROTO_ICMPV6, IPPROTO_AH,
                          IPPROTO_ESP, IPPROTO_OSPF}
  THEN r
  ELSE verbosef(r, "ip: unknown protocol")

\* ---------------------------------------------------------------------------
\* Network layer
\* ---------------------------------------------------------------------------
\* variant: the payload-length field is stored without adding the header
decode_ipv6_PayloadLen(pdata, p, len, r, junk, bigendian) ==
  IF len < IPV6_HDR_LEN
  THEN verbosef(r, "ipv6: packet too short")
  ELSE decode_ip_payload(pdata, p + IPV6_HDR_LEN, len - IPV6_HDR_LEN,
         [Touch(Touch(r, p + 4, 3), p + 8, 32) EXCEPT
            !.sm.len = ntohs(load16(pdata, p + 4, junk, bigendian), bigendian),
            !.sm.proto = ByteAt(pdata, p + 6, junk),
            !.sm.src = SetV6(@, BytesAt(pdata, p + 8, 16, junk)),
            !.sm.dst = SetV6(@, BytesAt(pdata, p + 24, 16, junk))],
         junk, bigendian)

decode_ipv6(pdata, p, len, r, junk, bigendian) ==
  IF len < IPV6_HDR_LEN
  THEN verbosef(r, "ipv6: packet too short")
  ELSE decode_ip_payload(pdata, p + IPV6_HDR_LEN, len - IPV6_HDR_LEN,
         [Touch(Touch(r, p + 4, 3), p + 8, 32) EXCEPT
            !.sm.len = ntohs(load16(pdata, p + 4, junk, bigendian), bigendian)
                         + IPV6_HDR_LEN,
            !.sm.proto = ByteAt(pdata, p + 6, junk),
            !.sm.src = SetV6(@, BytesAt(pdata, p + 8, 16, junk)),
            !.sm.dst = SetV6(@, BytesAt(pdata, p + 24, 16, junk))],
         junk, bigendian)

decode_ip(pdata, p, len, r, junk, bigendian) ==
  IF ip_v(pdata, p, junk) = 6
  THEN decode_ipv6(pdata, p, len, Touch(r, p, 1), junk, bigendian)
  ELSE IF len < IP_HDR_LEN
  THEN verbosef(Touch(r, p, 1), "ip: packet too short")
  ELSE IF ip_v(pdata, p, junk) # 4
  THEN verbosef(Touch(r, p, 1), "ip: version (expecting 4 or 6)")
  ELSE decode_ip_payload(pdata, p + IP_HDR_LEN, len - IP_HDR_LEN,
         [Touch(Touch(Touch(Touch(r, p, 1), p + 2, 2), p + 9, 1), p + 12, 8) EXCEPT
            !.sm.len = ntohs(load16(pdata, p + 2, junk, bigendian), bigendian),
            !.sm.proto = ByteAt(pdata, p + 9, junk),
            !.sm.src = SetV4(@, BytesAt(pdata, p + 12, 4, junk)),
            !.sm.dst = SetV4(@, BytesAt(pdata, p + 16, 4, junk))],
         junk, bigendian)

\* ---------------------------------------------------------------------------
\* Link layer
\* ---------------------------------------------------------------------------
\* variant: LQR frames are not recognised as control traffic
decode_pppoe_real_NoLqr(pdata, p, len, r, junk, bigendian) ==
  IF len < PPPOE_HDR_LEN
  THEN verbosef(r, "pppoe: packet too short")
  ELSE IF ByteAt(pdata, p + 1, junk) # 0
  THEN verbosef(Touch(r, p + 1, 1), "pppoe: code, expecting 0; ignoring.")
  ELSE IF ByteAt(pdata, p + 6, junk) = 192 /\ ByteAt(pdata, p + 7, junk) = 33
  THEN Touch(Touch(r, p + 1, 1), p + 6, 2)
  ELSE IF ByteAt(pdata, p + 6, junk) = 0 /\ ByteAt(pdata, p + 7, junk) = 33
  THEN acct_for(decode_ip(pdata, p + PPPOE_HDR_LEN, len - PPPOE_HDR_LEN,
                          Touch(Touch(r, p + 1, 1), p + 6, 2), junk, bigendian))
  ELSE verbosef(Touch(Touch(r, p + 1, 1), p + 6, 2),
                "pppoe: non-IP PPPoE packet; ignoring.")

decode_pppoe_real(pdata, p, len, r, junk, bigendian) ==
  IF len < PPPOE_HDR_LEN
  THEN verbosef(r, "pppoe: packet too short")
  ELSE IF ByteAt(pdata, p + 1, junk) # 0
  THEN verbosef(Touch(r, p + 1, 1), "pppoe: code, expecting 0; ignoring.")
  ELSE IF ByteAt(pdata, p + 6, junk) = 192 /\ ByteAt(pdata, p + 7, junk) = 33
  THEN Touch(Touch(r, p + 1, 1), p + 6, 2)
  ELSE IF ByteAt(pdata, p + 6, junk) = 192 /\ ByteAt(pdata, p + 7, junk) = 37
  THEN Touch(Touch(r, p + 1, 1), p + 6, 2)
  ELSE IF ByteAt(pdata, p + 6, junk) = 0 /\ ByteAt(pdata, p + 7, junk) = 33
  THEN acct_for(decode_ip(pdata, p + PPPOE_HDR_LEN, len - PPPOE_HDR_LEN,
                          Touch(Touch(r, p + 1, 1), p + 6, 2), junk, bigendian))
  ELSE verbosef(Touch(Touch(r, p + 1, 1), p + 6, 2),
                "pppoe: non-IP PPPoE packet; ignoring.")

decode_ether(pheader, pdata, want_pppoe, junk, bigendian) ==
  LET r0 == [Entry EXCEPT !.sm.time = pheader.ts] IN
  IF pheader.caplen < ETHER_HDR_LEN
  THEN verbosef(r0, "ether: packet too short")
  ELSE
    LET r1 == [Touch(r0, 0, ETHER_HDR_LEN) EXCEPT
                 !.sm.src_mac = BytesAt(pdata, 6, 6, junk),
                 !.sm.dst_mac = BytesAt(pdata, 0, 6, junk)]
        type == ntohs(load16(pdata, 12, junk, bigendian), bigendian)
    IN
    IF type \in {ETHERTYPE_IP, ETHERTYPE_IPV6} THEN
      IF ~want_pppoe
      THEN acct_for(decode_ip(pdata, ETHER_HDR_LEN,
                              pheader.caplen - ETHER_HDR_LEN, r1, junk, bigendian))
      ELSE verbosef(r1, "ether: discarded IP packet, expecting PPPoE instead")
    ELSE IF type = ETHERTYPE_ARP THEN r1
    ELSE IF type = ETHERTYPE_PPPOE THEN
      IF want_pppoe
      THEN decode_pppoe_real(pdata, ETHER_HDR_LEN,
                             pheader.caplen - ETHER_HDR_LEN, r1, junk, bigendian)
      ELSE verbosef(r1, "ether: got PPPoE frame: maybe you want --pppoe")
    ELSE verbosef(r1, "ether: unknown protocol")

\* decode_ip(), then sm.time = pheader->ts.tv_sec, then acct_for(&sm)
ip_time_acct(pheader, pdata, p, r, junk, bigendian) ==
  acct_for([decode_ip(pdata, p, pheader.caplen - p, r, junk, bigendian)
              EXCEPT !.sm.time = pheader.ts])

\* the family word is used in host byte order (the build without __OpenBSD__)
decode_loop(pheader, pdata, junk, bigendian) ==
  IF pheader.caplen < NULL_HDR_LEN
  THEN verbosef(Entry, "loop: packet too short")
  ELSE
    LET family == load32(pdata, 0, junk, bigendian)
        r1 == Touch(Entry, 0, 4)
    IN
    IF family = AF_INET
    THEN ip_time_acct(pheader, pdata, NULL_HDR_LEN, r1, junk, bigendian)
    ELSE IF family = AF_INET6
    THEN ip_time_acct(pheader, pdata, NULL_HDR_LEN, r1, junk, bigendian)
    ELSE verbosef(r1, "loop: unknown family")

decode_ppp(pheader, pdata, junk, bigendian) ==
  IF pheader.caplen < PPPOE_HDR_LEN
  THEN verbosef(Entry, "ppp: packet too short")
  ELSE IF ByteAt(pdata, 2, junk) = 0 /\ ByteAt(pdata, 3, junk) = 33
  THEN ip_time_acct(pheader, pdata, PPP_HDR_LEN, Touch(Entry, 2, 2), junk, bigendian)
  ELSE verbosef(Touch(Entry, 2, 2), "non-IP PPP packet; ignoring.")

decode_pppoe(pheader, pdata, junk, bigendian) ==
  decode_pppoe_real(pdata, 0, pheader.caplen,
                    [Entry EXCEPT !.sm.time = pheader.ts], junk, bigendian)

\* variant: the length check copied from decode_ether with its header length
decode_linux_sll_EtherLen(pheader, pdata, junk, bigendian) ==
  IF pheader.caplen < ETHER_HDR_LEN
  THEN verbosef(Entry, "linux_sll: packet too short")
  ELSE
    LET type == ntohs(load16(pdata, 14, junk, bigendian), bigendian)
        r1 == Touch(Entry, 14, 2)
    IN
    IF type \in {ETHERTYPE_IP, ETHERTYPE_IPV6}
    THEN ip_time_acct(pheader, pdata, SLL_HDR_LEN, r1, junk, bigendian)
    ELSE IF type = ETHERTYPE_ARP THEN r1
    ELSE verbosef(r1, "linux_sll: unknown protocol")

decode_linux_sll(pheader, pdata, junk, bigendian) ==
  IF pheader.caplen < SLL_HDR_LEN
  THEN verbosef(Entry, "linux_sll: packet too short")
  ELSE
    LET type == ntohs(load16(pdata, 14, junk, bigendian), bigendian)
        r1 == Touch(Entry, 14, 2)
    IN
    IF type \in {ETHERTYPE_IP, ETHERTYPE_IPV6}
    THEN ip_time_acct(pheader, pdata, SLL_HDR_LEN, r1, junk, bigendian)
    ELSE IF type = ETHERTYPE_ARP THEN r1
    ELSE verbosef(r1, "linux_sll: unknown protocol")

decode_raw(pheader, pdata, junk, bigendian) ==
  ip_time_acct(pheader, pdata, 0, Entry, junk, bigendian)

\* ---------------------------------------------------------------------------
\* Frames on the wire, as the capture subsystem delivers them
\* ---------------------------------------------------------------------------
Hi(x) == x \div 256
Lo(x) == x % 256

Fill(n) == [i \in 1..n |-> 238]

SrcMac == <<2, 0, 0, 0, 0, 1>>
DstMac == <<2, 0, 0, 0, 0, 2>>
SrcV4 == <<10, 0, 0, 1>>
DstV4 == <<192, 168, 1, 2>>
SrcV6 == <<32, 1, 13, 184, 0, 0, 0, 0, 0, 0, 0, 0, 0, 0, 0, 1>>
DstV6 == <<32, 1, 13, 184, 0, 0, 0, 0, 0, 0, 0, 0, 0, 0, 0, 2>>
SrcPort == 8080
DstPort == 80

\* every generated IP packet is padded with data to this many bytes
WireIpLen == IPV6_HDR_LEN + TCP_HDR_LEN + MaxData

\* total-length values a header may declare: the bytes present, or a longer
\* packet of which only the head was captured
DeclaredLens == {WireIpLen, 1500}

\* TCP flag bytes: SYN|ACK, and SYN|ACK with the two bits above URG also set
FlagBytes == {18, 210}

Protos == {IPPROTO_TCP, IPPROTO_UDP, IPPROTO_ICMP, 99}

TcpHdr(flags) ==
  <<Hi(SrcPort), Lo(SrcPort), Hi(DstPort), Lo(DstPort)>>
    \o <<0, 0, 0, 1>> \o <<0, 0, 0, 2>> \o <<80, flags>> \o <<255, 255>>
    \o <<171, 205>> \o <<0, 0>>

UdpHdr == <<Hi(SrcPort), Lo(SrcPort), Hi(DstPort), Lo(DstPort), 0, 8, 171, 205>>

Transport(proto, flags) ==
  IF proto = IPPROTO_TCP THEN TcpHdr(flags)
  ELSE IF proto = IPPROTO_UDP THEN UdpHdr
  ELSE << >>

PadTo(bytes, n) == IF Len(bytes) < n THEN bytes \o Fill(n - Len(bytes)) ELSE bytes

RECURSIVE Options(_)
Options(words) == IF words = 0 THEN << >> ELSE <<148, 4, 0, 0>> \o Options(words - 1)

\* an IPv4 packet: version nibble, header length 5 + optwords, options, payload
V4Packet(version, optwords, proto, flags, declared) ==
  PadTo(<<version * 16 + 5 + optwords, 0, Hi(declared), Lo(declared)>>
          \o <<18, 52, 64, 0>> \o <<64, proto, 171, 205>>
          \o SrcV4 \o DstV4 \o Options(optwords) \o Transport(proto, flags),
        WireIpLen)

V6Packet(nxt, flags, declared) ==
  PadTo(<<96, 0, 0, 0, Hi(declared - IPV6_HDR_LEN), Lo(declared - IPV6_HDR_LEN)>>
          \o <<nxt, 64>> \o SrcV6 \o DstV6 \o Transport(nxt, flags),
        WireIpLen)

TransportVariants ==
  { <<pr, fl>> : pr \in Protos \ {IPPROTO_TCP}, fl \in {18} }
    \cup { <<IPPROTO_TCP, fl>> : fl \in FlagBytes }

IpPackets ==
  { V4Packet(4, 0, t[1], t[2], d) : t \in TransportVariants, d \in DeclaredLens }
    \cup { V4Packet(4, ow, t[1], t[2], WireIpLen) :
             ow \in 1..MaxOptWords, t \in TransportVariants }
    \cup { V6Packet(t[1], t[2], d) : t \in TransportVariants, d \in DeclaredLens }
    \cup { V4Packet(5, 0, IPPROTO_TCP, 18, WireIpLen) }

\* payloads behind link headers that do not select IP
OtherPayloads ==
  { V4Packet(4, 0, IPPROTO_TCP, 18, WireIpLen), V6Packet(IPPROTO_UDP, 18, WireIpLen) }

EtherHdr(type) == DstMac \o SrcMac \o <<Hi(type), Lo(type)>>

\* version/type, code, session id, length, PPP protocol
PppoeHdr(code, proto) == <<17, code, 0, 1, 0, 0, Hi(proto), Lo(proto)>>

\* IP, LCP, LQR, IPv6CP-era IPv6
PppProtos == {33, 49185, 49189, 87}

PppoeFrames ==
  { PppoeHdr(0, 33) \o pkt : pkt \in IpPackets }
    \cup { PppoeHdr(c, pp) \o pkt :
             c \in {0, 167}, pp \in PppProtos, pkt \in OtherPayloads }

EtherFrames ==
  { EtherHdr(ty) \o pkt : ty \in {ETHERTYPE_IP, ETHERTYPE_IPV6}, pkt \in IpPackets }
    \cup { EtherHdr(ty) \o pkt : ty \in {ETHERTYPE_ARP, 4660}, pkt \in OtherPayloads }
    \cup { EtherHdr(ETHERTYPE_PPPOE) \o f : f \in PppoeFrames }

\* the address family as the loopback driver wrote it, in either byte order
LoopFrames ==
  { fam \o pkt :
      fam \in { <<AF_INET, 0, 0, 0>>, <<0, 0, 0, AF_INET6>> }, pkt \in IpPackets }
    \cup { fam \o pkt :
      fam \in { <<0, 0, 0, AF_INET>>, <<AF_INET6, 0, 0, 0>>, <<7, 0, 0, 7>> },
      pkt \in OtherPayloads }

PppFrames ==
  { <<255, 3, 0, 33>> \o pkt : pkt \in IpPackets }
    \cup { <<255, 3, Hi(pp), Lo(pp)>> \o pkt : pp \in PppProtos, pkt \in OtherPayloads }

SllHdr(type) == <<0, 0, 0, 1, 0, 6>> \o SrcMac \o <<0, 0>> \o <<Hi(type), Lo(type)>>

SllFrames ==
  { SllHdr(ty) \o pkt : ty \in {ETHERTYPE_IP, ETHERTYPE_IPV6}, pkt \in IpPackets }
    \cup { SllHdr(ty) \o pkt : ty \in {ETHERTYPE_ARP, 4660}, pkt \in OtherPayloads }

RawFrames == IpPackets

\* capture timestamps
TimeStamps == {86400}

\* what a read past the captured bytes may find in the capture buffer
JunkBytes == {0, 69, 96}

\* ---------------------------------------------------------------------------
\* The capture loop
\* ---------------------------------------------------------------------------
VARIABLES
  lh,              \* linkhdr record selected at startup (index into linkhdrs)
  opt_want_pppoe,  \* the --pppoe option
  bigendian,       \* byte order of the host
  pc,              \* "idle": waiting for a frame; "done": a decoder returned
  pheader,         \* pcap_pkthdr of the frame last delivered
  pdata,           \* its captured bytes
  sm,              \* the decoder's stack summary when it returned
  log,             \* diagnostics the decoder issued for this frame
  acct,            \* summaries the decoder passed to acct_for for this frame
  reads            \* frame offsets the decoder chain dereferenced

vars == <<lh, opt_want_pppoe, bigendian, pc, pheader, pdata, sm, log, acct, reads>>

handler == linkhdrs[lh].handler

Init ==
  /\ lh \in { getlinkhdr(lt) : lt \in LinkTypes }
  /\ linkhdrs[lh].handler # NoHandler
  /\ opt_want_pppoe \in BOOLEAN
  /\ bigendian \in BOOLEAN
  /\ pc = "idle"
  /\ pheader = [caplen |-> 0, ts |-> 0]
  /\ pdata = << >>
  /\ sm = ZeroSm
  /\ log = << >>
  /\ acct = << >>
  /\ reads = {}

\* the decoder has run to completion on the delivered frame
Deliver(ph, pd, r) ==
  /\ pc' = "done"
  /\ pheader' = ph
  /\ pdata' = pd
  /\ sm' = r.sm
  /\ log' = r.log
  /\ acct' = r.acct
  /\ reads' = r.reads
  /\ UNCHANGED <<lh, opt_want_pppoe, bigendian>>

\* a frame captured with any snapshot length: its first caplen bytes
Captures(frames) ==
  UNION { { [ph |-> [caplen |-> n, ts |-> t], pd |-> SubSeq(f, 1, n)] :
              n \in 0..Len(f), t \in TimeStamps } : f \in frames }

Ether ==
  /\ pc = "idle" /\ handler = "decode_ether"
  /\ \E c \in Captures(EtherFrames), junk \in JunkBytes :
       Deliver(c.ph, c.pd, decode_ether(c.ph, c.pd, opt_want_pppoe, junk, bigendian))

Loop ==
  /\ pc = "idle" /\ handler = "decode_loop"
  /\ \E c \in Captures(LoopFrames), junk \in JunkBytes :
       Deliver(c.ph, c.pd, decode_loop(c.ph, c.pd, junk, bigendian))

Ppp ==
  /\ pc = "idle" /\ handler = "decode_ppp"
  /\ \E c \in Captures(PppFrames), junk \in JunkBytes :
       Deliver(c.ph, c.pd, decode_ppp(c.ph, c.pd, junk, bigendian))

Pppoe ==
  /\ pc = "idle" /\ handler = "decode_pppoe"
  /\ \E c \in Captures(PppoeFrames), junk \in JunkBytes :
       Deliver(c.ph, c.pd, decode_pppoe(c.ph, c.pd, junk, bigendian))

LinuxSll ==
  /\ pc = "idle" /\ handler = "decode_linux_sll"
  /\ \E c \in Captures(SllFrames), junk \in JunkBytes :
       Deliver(c.ph, c.pd, decode_linux_sll(c.ph, c.pd, junk, bigendian))

Raw ==
  /\ pc = "idle" /\ handler = "decode_raw"
  /\ \E c \in Captures(RawFrames), junk \in JunkBytes :
       Deliver(c.ph, c.pd, decode_raw(c.ph, c.pd, junk, bigendian))

\* the callback has returned; its stack summary is gone and the loop waits
Return ==
  /\ pc = "done"
  /\ pc' = "idle"
  /\ pheader' = [caplen |-> 0, ts |-> 0]
  /\ pdata' = << >>
  /\ sm' = ZeroSm
  /\ log' = << >>
  /\ acct' = << >>
  /\ reads' = {}
  /\ UNCHANGED <<lh, opt_want_pppoe, bigendian>>

Next == Ether \/ Loop \/ Ppp \/ Pppoe \/ LinuxSll \/ Raw \/ Return

Spec == Init /\ [][Next]_vars

TypeOK ==
  /\ pc \in {"idle", "done"}
  /\ pheader.caplen = Len(pdata)
  /\ Len(acct) <= 1

\* ---------------------------------------------------------------------------
\* The delivered frame as the wire formats define it
\* ---------------------------------------------------------------------------
Done == pc = "done"

caplen == pheader.caplen

hdrlen == linkhdrs[lh].hdrlen

B(o) == pdata[o + 1]

BE16(o) == B(o) * 256 + B(o + 1)

Field(o, n) == SubSeq(pdata, o + 1, o + n)

InLog(msgs) == \E i \in 1..Len(log) : log[i] \in msgs

LinkTooShort ==
  { "ether: packet too short", "loop: packet too short", "ppp: packet too short",
    "pppoe: packet too short", "linux_sll: packet too short" }

NetTooShort == { "ip: packet too short", "ipv6: packet too short" }

TransportTooShort == { "tcp: packet too short", "udp: packet too short" }

\* diagnostics with which the link layer discards a frame
LinkDrops ==
  LinkTooShort \cup
  { "ether: discarded IP packet, expecting PPPoE instead",
    "ether: got PPPoE frame: maybe you want --pppoe", "ether: unknown protocol",
    "loop: unknown family", "non-IP PPP packet; ignoring.",
    "pppoe: code, expecting 0; ignoring.", "pppoe: non-IP PPPoE packet; ignoring.",
    "linux_sll: unknown protocol" }

\* diagnostics with which the network layer ends the chain
NetDrops == NetTooShort \cup { "ip: version (expecting 4 or 6)" }

\* a PPPoE header starts at offset base and is captured whole
PppoeAt(base) == caplen >= base + PPPOE_HDR_LEN

\* offset of the PPPoE header when the frame is decoded as PPPoE, else -1
PppoeBase ==
  IF handler = "decode_pppoe" THEN 0
  ELSE IF handler = "decode_ether" /\ opt_want_pppoe /\ caplen >= ETHER_HDR_LEN
          /\ BE16(12) = ETHERTYPE_PPPOE
  THEN ETHER_HDR_LEN
  ELSE -1

HostFamily ==
  IF bigendian
  THEN ((B(0) * 256 + B(1)) * 256 + B(2)) * 256 + B(3)
  ELSE ((B(3) * 256 + B(2)) * 256 + B(1)) * 256 + B(0)

\* offset at which the link layer hands the payload to the IP demuxer,
\* -1 when the link header does not select IP
IpOff ==
  IF PppoeBase >= 0 THEN
    IF PppoeAt(PppoeBase) /\ B(PppoeBase + 1) = 0 /\ BE16(PppoeBase + 6) = 33
    THEN PppoeBase + PPPOE_HDR_LEN ELSE -1
  ELSE IF caplen < hdrlen THEN -1
  ELSE IF handler = "decode_ether" THEN
    IF BE16(12) \in {ETHERTYPE_IP, ETHERTYPE_IPV6} /\ ~opt_want_pppoe
    THEN ETHER_HDR_LEN ELSE -1
  ELSE IF handler = "decode_loop" THEN
    IF HostFamily \in {AF_INET, AF_INET6} THEN NULL_HDR_LEN ELSE -1
  ELSE IF handler = "decode_ppp" THEN
    IF BE16(2) = 33 THEN PPP_HDR_LEN ELSE -1
  ELSE IF handler = "decode_linux_sll" THEN
    IF BE16(14) \in {ETHERTYPE_IP, ETHERTYPE_IPV6} THEN SLL_HDR_LEN ELSE -1
  ELSE 0

\* bytes captured from the start of the IP packet on
IpLen == caplen - IpOff

IsV4 == IpOff >= 0 /\ IpLen >= IP_HDR_LEN /\ B(IpOff) \div 16 = 4

IsV6 == IpOff >= 0 /\ IpLen >= IPV6_HDR_LEN /\ B(IpOff) \div 16 = 6

\* IPv4 header length in bytes, from the IHL nibble
Ihl == 4 * (B(IpOff) % 16)

\* the flag bits of a TCP flags byte that are FIN, SYN, RST, PUSH, ACK or URG
KnownFlags(x) ==
  (IF x % 2 = 1 THEN 1 ELSE 0) + (IF (x \div 2) % 2 = 1 THEN 2 ELSE 0)
    + (IF (x \div 4) % 2 = 1 THEN 4 ELSE 0) + (IF (x \div 8) % 2 = 1 THEN 8 ELSE 0)
    + (IF (x \div 16) % 2 = 1 THEN 16 ELSE 0) + (IF (x \div 32) % 2 = 1 THEN 32 ELSE 0)

V4Addr(o) == [family |-> "IPv4", ip |-> Field(o, 4) \o Zeros(12)]

V6Addr(o) == [family |-> "IPv6", ip |-> Field(o, 16)]

\* ---------------------------------------------------------------------------
\* Properties
\* ---------------------------------------------------------------------------

\* C1: whenever a link decoder returns from a frame whose captured length is
\* below the header length registered for the link type, acct_for was not
\* called and the link layer logged "packet too short".
C1_ShortFrameDropped ==
  (Done /\ caplen < hdrlen) => (acct = << >> /\ InLog(LinkTooShort))

C1_Witness ==
  Done /\ caplen < hdrlen /\ caplen > 0 /\ handler = "decode_linux_sll"
    /\ log = << "linux_sll: packet too short" >>

\* C2: a decoder invocation never both logs a drop diagnostic and calls
\* acct_for, and it does neither only for ARP and for PPPoE LCP/LQR frames.
C2_ForwardXorDrop ==
  Done =>
    /\ ~(acct # << >> /\ InLog(LinkDrops \cup NetDrops))
    /\ (acct = << >> /\ ~InLog(LinkDrops \cup NetDrops)) =>
         \/ /\ handler = "decode_ether" /\ caplen >= ETHER_HDR_LEN
            /\ BE16(12) = ETHERTYPE_ARP
         \/ /\ handler = "decode_linux_sll" /\ caplen >= SLL_HDR_LEN
            /\ BE16(14) = ETHERTYPE_ARP
         \/ /\ PppoeBase >= 0 /\ PppoeAt(PppoeBase) /\ B(PppoeBase + 1) = 0
            /\ BE16(PppoeBase + 6) \in {49185, 49189}

\* C3: for an Ethernet frame with ethertype 0x0800 carrying IPv4/TCP whose TCP
\* header is captured, decoded with PPPoE mode off, the summary handed to
\* acct_for carries the frame's MACs, IPv4 addresses, total length, the ports
\* of the TCP header and the six known bits of its flags byte.
C3_EtherV4Tcp ==
  ( /\ Done /\ handler = "decode_ether" /\ ~opt_want_pppoe
    /\ caplen >= ETHER_HDR_LEN /\ BE16(12) = ETHERTYPE_IP
    /\ IsV4 /\ Ihl >= IP_HDR_LEN /\ B(IpOff + 9) = IPPROTO_TCP
    /\ IpLen >= Ihl + TCP_HDR_LEN )
  =>
  ( /\ Len(acct) = 1
    /\ acct[1].dst_mac = Field(0, 6)
    /\ acct[1].src_mac = Field(6, 6)
    /\ acct[1].src = V4Addr(IpOff + 12)
    /\ acct[1].dst = V4Addr(IpOff + 16)
    /\ acct[1].len = BE16(IpOff + 2)
    /\ acct[1].proto = IPPROTO_TCP
    /\ acct[1].src_port = BE16(IpOff + Ihl)
    /\ acct[1].dst_port = BE16(IpOff + Ihl + 2)
    /\ acct[1].tcp_flags = KnownFlags(B(IpOff + Ihl + 13)) )

\* C4: when the link layer dispatched, the IP header parsed, the protocol is
\* TCP (UDP) and fewer than TCP_HDR_LEN (UDP_HDR_LEN) bytes follow the fixed
\* IP header, acct_for is called exactly once with the sentinel protocol, the
\* network layer's addresses and length, and zero ports and flags.
TransportCut(off, iphl) ==
  \/ B(off) = IPPROTO_TCP /\ IpLen - iphl < TCP_HDR_LEN
  \/ B(off) = IPPROTO_UDP /\ IpLen - iphl < UDP_HDR_LEN

C4_TransportTooShort ==
  /\ (Done /\ IsV4 /\ TransportCut(IpOff + 9, IP_HDR_LEN)) =>
       /\ Len(acct) = 1
       /\ acct[1] = sm
       /\ sm.proto = IPPROTO_INVALID
       /\ sm.src = V4Addr(IpOff + 12)
       /\ sm.dst = V4Addr(IpOff + 16)
       /\ sm.len = BE16(IpOff + 2)
       /\ sm.src_port = 0 /\ sm.dst_port = 0 /\ sm.tcp_flags = 0
  /\ (Done /\ IsV6 /\ TransportCut(IpOff + 6, IPV6_HDR_LEN)) =>
       /\ Len(acct) = 1
       /\ acct[1] = sm
       /\ sm.proto = IPPROTO_INVALID
       /\ sm.src = V6Addr(IpOff + 8)
       /\ sm.dst = V6Addr(IpOff + 24)
       /\ sm.len = BE16(IpOff + 4) + IPV6_HDR_LEN
       /\ sm.src_port = 0 /\ sm.dst_port = 0 /\ sm.tcp_flags = 0

C4_Witness ==
  /\ Done /\ handler = "decode_ppp" /\ IsV4
  /\ B(IpOff + 9) = IPPROTO_TCP /\ IpLen = IP_HDR_LEN + TCP_HDR_LEN - 1
  /\ Len(acct) = 1 /\ acct[1].proto = IPPROTO_INVALID
  /\ "tcp: packet too short" \in { log[i] : i \in 1..Len(log) }

\* C5: a frame captured with exactly getsnaplen(lh) bytes that the link layer
\* dispatches and that carries TCP or UDP directly behind a 20-byte IPv4 or a
\* 40-byte IPv6 header is decoded without any "packet too short" diagnostic,
\* keeps its protocol and has its ports extracted.
FixedHdr == IF IsV6 THEN IPV6_HDR_LEN ELSE IP_HDR_LEN

CarriedProto == IF IsV6 THEN B(IpOff + 6) ELSE B(IpOff + 9)

C5_SnaplenSuffices ==
  ( /\ Done /\ caplen = getsnaplen(lh)
    /\ (IsV6 \/ (IsV4 /\ Ihl = IP_HDR_LEN))
    /\ CarriedProto \in {IPPROTO_TCP, IPPROTO_UDP} )
  =>
  ( /\ ~InLog(LinkTooShort \cup NetTooShort \cup TransportTooShort)
    /\ Len(acct) = 1
    /\ acct[1].proto = CarriedProto
    /\ caplen >= IpOff + FixedHdr + 4
    /\ acct[1].src_port = BE16(IpOff + FixedHdr)
    /\ acct[1].dst_port = BE16(IpOff + FixedHdr + 2) )

\* C6: whenever decode_ip or decode_ipv6 rejected the packet (too short, or a
\* version other than 4 and 6), acct_for was not called for the frame.
C6_NetRejectNoAcct ==
  (Done /\ InLog(NetDrops)) => acct = << >>

\* C7: a PPPoE frame, decoded by decode_pppoe or by decode_ether in PPPoE
\* mode, whose code is non-zero or whose PPP protocol is LCP or LQR never
\* reaches acct_for; with code 0, LCP and LQR frames log nothing.
C7_PppoeControl ==
  ( /\ Done /\ PppoeBase >= 0 /\ PppoeAt(PppoeBase)
    /\ (B(PppoeBase + 1) # 0 \/ BE16(PppoeBase + 6) \in {49185, 49189}) )
  =>
  ( /\ acct = << >>
    /\ B(PppoeBase + 1) = 0 => log = << >> )

C7_Witness ==
  /\ Done /\ handler = "decode_ether" /\ PppoeBase = ETHER_HDR_LEN
  /\ PppoeAt(PppoeBase) /\ B(PppoeBase + 1) = 0 /\ BE16(PppoeBase + 6) = 49189
  /\ caplen > ETHER_HDR_LEN + PPPOE_HDR_LEN + IPV6_HDR_LEN
  /\ acct = << >> /\ log = << >>

\* C8 (as stated): a dispatched payload of at least 40 bytes with version
\* nibble 6 yields one summary with both addresses IPv6 as in the header,
\* protocol equal to the next-header field and len = payload length + 40.
C8_Original ==
  (Done /\ IsV6) =>
    /\ Len(acct) = 1
    /\ acct[1].src = V6Addr(IpOff + 8)
    /\ acct[1].dst = V6Addr(IpOff + 24)
    /\ acct[1].proto = B(IpOff + 6)
    /\ acct[1].len = BE16(IpOff + 4) + IPV6_HDR_LEN

\* C8 (amended): as above, except that the protocol is the sentinel
\* IPPROTO_INVALID when the next header is TCP (UDP) and fewer than 20 (8)
\* bytes follow the IPv6 header.
C8_Ipv6ByNibble ==
  (Done /\ IsV6) =>
    /\ Len(acct) = 1
    /\ acct[1].src = V6Addr(IpOff + 8)
    /\ acct[1].dst = V6Addr(IpOff + 24)
    /\ acct[1].proto = IF TransportCut(IpOff + 6, IPV6_HDR_LEN)
                       THEN IPPROTO_INVALID ELSE B(IpOff + 6)
    /\ acct[1].len = BE16(IpOff + 4) + IPV6_HDR_LEN

C8_Witness ==
  /\ Done /\ handler = "decode_ether" /\ IsV6 /\ BE16(12) = ETHERTYPE_IP
  /\ B(IpOff + 6) = IPPROTO_UDP /\ IpLen >= IPV6_HDR_LEN + UDP_HDR_LEN
  /\ Len(acct) = 1 /\ acct[1].src.family = "IPv6" /\ acct[1].proto = IPPROTO_UDP
  /\ acct[1].len = 1500

\* C9: no decoder dereferences a frame offset at or beyond the captured
\* length.
C9_ReadsInBounds ==
  Done => \A o \in reads : o < caplen

\* C10: decode_ppp, on a frame of at least PPP_HDR_LEN captured bytes, calls
\* decode_ip on the bytes past the PPP header and acct_for once when bytes 2-3
\* are 0x00 0x21, and otherwise logs "non-IP PPP packet" without calling
\* acct_for.
C10_PppDispatch ==
  (Done /\ handler = "decode_ppp" /\ caplen >= hdrlen) =>
    IF B(2) = 0 /\ B(3) = 33
    THEN Len(acct) = 1 /\ PPP_HDR_LEN \in reads /\ ~InLog(LinkDrops)
    ELSE acct = << >> /\ log = << "non-IP PPP packet; ignoring." >>

====
